---- MODULE Spec2Model ----
(***************************************************************************)
(* Model of src/pdf_extractor.py: reconstruction of reading-order text     *)
(* from the positioned words of a PDF page, and the document extractor     *)
(* that writes the page records to a JSON-Lines file and a text file.      *)
(*                                                                         *)
(* A Python str is a sequence of one-character strings.  The characters    *)
(* U+2022 (bullet) and U+2013 (en dash) are written "u2022" and "u2013".   *)
(* Coordinates are integers; the page midpoint width * 0.5 is compared     *)
(* exactly, by cross-multiplication.                                       *)
(***************************************************************************)
EXTENDS Integers, Sequences, FiniteSets, TLC

VARIABLES
    \* ---- reconstruct_page_text (one page) ----
    pc,                   \* position in reconstruct_page_text
    words,                \* p.extract_words(...): list of word dicts
    page_width,           \* p.width
    y_tol,                \* row tolerance
    drop_headers_footers, \* boilerplate filter flag
    segs,                 \* the seg values iterated in words_to_lines, in order
    lines,                \* list of Line objects
    ordered,              \* full + left + right
    filtered,             \* texts handed to the paragraph merge loop
    i,                    \* loop index of the merge loop
    out_lines,            \* accumulator of the merge loop
    prev,                 \* local of the merge loop (last iteration)
    cur,                  \* local of the merge loop (last iteration)
    did_merge,            \* local of the merge loop (last iteration)
    rec,                  \* the returned page record
    \* ---- main / extract_pdf (one run) ----
    xpc,                  \* position in main / extract_pdf
    args,                 \* parsed command line
    pdf,                  \* the opened document: heights of its pages
    pdf_open,             \* the pdfplumber handle is open
    n,                    \* number of pages to iterate
    idx,                  \* loop index of the page loop
    fj,                   \* state of the JSON-Lines file object
    fj_buf,               \* records written to fj and not yet flushed
    jsonl_disk,           \* content of the JSON-Lines file on disk
    ft,                   \* state of the text file object
    txt_disk,             \* content of the text file on disk
    all_text_pages,       \* accumulated text sections
    reconstructed         \* pages for which reconstruct_page_text returned

pageVars == <<pc, words, page_width, y_tol, drop_headers_footers, segs, lines,
              ordered, filtered, i, out_lines, prev, cur, did_merge, rec>>
runVars == <<xpc, args, pdf, pdf_open, n, idx, fj, fj_buf, jsonl_disk, ft,
             txt_disk, all_text_pages, reconstructed>>
vars == <<pageVars, runVars>>

(***************************************************************************)
(* Bounds of the model.                                                    *)
(***************************************************************************)
MaxWords == 2
MaxLines == 3
MaxPages == 2
MaxRowWords == 3

(***************************************************************************)
(* Characters and strings.                                                 *)
(***************************************************************************)
LowerSeq == <<"a","b","c","d","e","f","g","h","i","j","k","l","m",
              "n","o","p","q","r","s","t","u","v","w","x","y","z">>
UpperSeq == <<"A","B","C","D","E","F","G","H","I","J","K","L","M",
              "N","O","P","Q","R","S","T","U","V","W","X","Y","Z">>
Digits == {"0","1","2","3","4","5","6","7","8","9"}
Whitespace == {" ", "\t", "\n"}

Range(s) == {s[k] : k \in 1..Len(s)}
IsLower(c) == c \in Range(LowerSeq)
IsUpper(c) == c \in Range(UpperSeq)
IsDigit(c) == c \in Digits
IsSpace(c) == c \in Whitespace
IsWordChar(c) == IsLower(c) \/ IsUpper(c) \/ IsDigit(c) \/ c = "_"

LowerChar(c) ==
    IF IsUpper(c) THEN LowerSeq[CHOOSE k \in 1..Len(UpperSeq) : UpperSeq[k] = c]
    ELSE c
Lower(s) == [k \in 1..Len(s) |-> LowerChar(s[k])]

Last(s) == s[Len(s)]
Front(s) == SubSeq(s, 1, Len(s) - 1)

StartsWith(s, p) == Len(p) <= Len(s) /\ SubSeq(s, 1, Len(p)) = p
EndsWith(s, p) == Len(p) <= Len(s) /\ SubSeq(s, Len(s) - Len(p) + 1, Len(s)) = p
Contains(s, p) ==
    \E k \in 0..(Len(s) - Len(p)) : SubSeq(s, k + 1, k + Len(p)) = p

RECURSIVE LStrip(_)
LStrip(s) ==
    IF s # <<>> /\ IsSpace(Head(s)) THEN LStrip(Tail(s)) ELSE s

RECURSIVE RStrip(_)
RStrip(s) ==
    IF s # <<>> /\ IsSpace(Last(s)) THEN RStrip(Front(s)) ELSE s

Strip(s) == RStrip(LStrip(s))

\* re.sub(r"\s+", " ", s): every maximal whitespace run becomes one space
RECURSIVE CollapseWhitespace(_)
CollapseWhitespace(s) ==
    IF s = <<>> THEN <<>>
    ELSE IF IsSpace(Head(s)) THEN <<" ">> \o CollapseWhitespace(LStrip(s))
    ELSE <<Head(s)>> \o CollapseWhitespace(Tail(s))

norm_space(s) == Strip(CollapseWhitespace(s))

\* sep.join(parts)
RECURSIVE Join(_, _)
Join(sep, parts) ==
    IF parts = <<>> THEN <<>>
    ELSE IF Len(parts) = 1 THEN parts[1]
    ELSE parts[1] \o sep \o Join(sep, Tail(parts))

(***************************************************************************)
(* Text heuristics.                                                        *)
(***************************************************************************)
TitlePhrase == <<"f","u","t","u","r","e"," ","o","f"," ","j","o","b","s"," ","r","e","p","o","r","t">>
DatelinePrefix == <<"j","a","n","u","a","r","y"," ","2","0","2","5">>

\* re.fullmatch(r"\d+", s)
AllDigits(s) == s # <<>> /\ \A k \in 1..Len(s) : IsDigit(s[k])

\* re.search(r"\b\d+\b", s): a maximal digit run with no word character on
\* either side
HasStandaloneInteger(s) ==
    \E a \in 1..Len(s) : \E b \in a..Len(s) :
        /\ \A k \in a..b : IsDigit(s[k])
        /\ (a = 1 \/ ~IsWordChar(s[a - 1]))
        /\ (b = Len(s) \/ ~IsWordChar(s[b + 1]))

is_likely_header_footer(line) ==
    LET s == Lower(norm_space(line))
    IN  \/ AllDigits(s)
        \/ (Contains(s, TitlePhrase) /\ HasStandaloneInteger(s))
        \/ (StartsWith(s, DatelinePrefix) /\ Contains(s, TitlePhrase))

\* returns <<prev, nxt, did_merge>>
merge_hyphenation_keeping_hyphen(p, nxt) ==
    IF EndsWith(p, <<"-">>) /\ nxt # <<>> /\ IsLower(nxt[1])
    THEN <<p, nxt, TRUE>>
    ELSE <<p, nxt, FALSE>>
merge_hyphenation(p, nxt) ==
    IF EndsWith(p, <<"-">>) /\ nxt # <<>> /\ IsLower(nxt[1])
    THEN <<Front(p), nxt, TRUE>>
    ELSE <<p, nxt, FALSE>>

BulletChars == {"u2022", "-", "u2013", "*"}

\* the alternation (•|-|–|\*|\d+\.) matches s[1..k]
MarkerEndsAt(s, k) ==
    \/ (k = 1 /\ s[1] \in BulletChars)
    \/ (k >= 2 /\ s[k] = "." /\ \A j \in 1..(k - 1) : IsDigit(s[j]))

\* re.match(r"^(•|-|–|\*|\d+\.)\s+", s)
MatchesBulletGlyphOnly(s) ==
    Len(s) >= 2 /\ s[1] \in BulletChars /\ IsSpace(s[2])
MatchesBullet(s) ==
    \E k \in 1..(Len(s) - 1) : MarkerEndsAt(s, k) /\ IsSpace(s[k + 1])

\* re.match(r"^[A-Z][A-Z\s]{3,}$", s)
MatchesShoutyHeading(s) ==
    /\ Len(s) >= 4
    /\ IsUpper(s[1])
    /\ \A k \in 2..Len(s) : IsUpper(s[k]) \/ IsSpace(s[k])

CaptionWords == {<<"f","i","g","u","r","e">>, <<"t","a","b","l","e">>, <<"b","o","x">>}

\* re.match(r"^(figure|table|box)\s+\d", s)
MatchesCaption(s) ==
    \E w \in CaptionWords :
        /\ StartsWith(s, w)
        /\ \E m \in 1..(Len(s) - Len(w) - 1) :
              /\ \A k \in 1..m : IsSpace(s[Len(w) + k])
              /\ IsDigit(s[Len(w) + m + 1])

SentenceEnd == {".", "!", "?", ":"}

should_join_with_space(p, nxt) ==
    LET prev_s == RStrip(p)
        nxt_s == LStrip(nxt)
    IN  IF prev_s = <<>> THEN FALSE
        ELSE IF MatchesBullet(nxt_s) THEN FALSE
        ELSE IF MatchesShoutyHeading(nxt_s) THEN FALSE
        ELSE IF MatchesCaption(Lower(nxt_s)) THEN FALSE
        ELSE IF Last(prev_s) \in SentenceEnd THEN FALSE
        ELSE TRUE

(***************************************************************************)
(* Geometry: rows, segments, lines, columns.                               *)
(* A word is [id, text, x0, x1, top]; id is the identity of the dict, its  *)
(* position in the list extract_words returned.  A Line is                 *)
(* [id, y, x0, x1, text, kind]; id is the identity of the object, the      *)
(* order in which words_to_lines created it.                               *)
(***************************************************************************)
MinGap == 25
GutterNum == 1
GutterDen == 2

Abs(x) == IF x < 0 THEN 0 - x ELSE x
MinOf(S) == CHOOSE x \in S : \A y \in S : x <= y
MaxOf(S) == CHOOSE x \in S : \A y \in S : y <= x

\* Python's order on key tuples of numbers: lexicographic
KeyLess(a, b) ==
    \E k \in 1..Len(a) : a[k] < b[k] /\ \A j \in 1..(k - 1) : a[j] = b[j]

\* sorted(s, key=...), keys[k] the key of s[k]: ascending, and elements with
\* equal keys keep their order
StableSort(s, keys) ==
    LET m == Len(s)
        Before(j, k) == KeyLess(keys[j], keys[k])
                            \/ (~KeyLess(keys[k], keys[j]) /\ j < k)
        rank(k) == Cardinality({j \in 1..m : Before(j, k)}) + 1
    IN  [p \in 1..m |-> s[CHOOSE k \in 1..m : rank(k) = p]]

\* key=lambda w: (w["top"], w["x0"])
SortedByTopThenX0(ws) ==
    StableSort(ws, [k \in 1..Len(ws) |-> <<ws[k].top, ws[k].x0>>])
\* key=lambda w: w["x0"]
SortedByX0(ws) == StableSort(ws, [k \in 1..Len(ws) |-> <<ws[k].x0>>])
\* key=lambda ln: ln.y
SortedByY(lns) == StableSort(lns, [k \in 1..Len(lns) |-> <<lns[k].y>>])

\* the split taken only for a gap strictly above min_gap
RECURSIVE SplitLoopStrict(_, _, _, _)
SplitLoopStrict(ws, segments, current, min_gap) ==
    IF ws = <<>> THEN Append(segments, current)
    ELSE LET w == Head(ws)
             gap == w.x0 - Last(current).x1
         IN  IF gap > min_gap
             THEN SplitLoopStrict(Tail(ws), Append(segments, current), <<w>>, min_gap)
             ELSE SplitLoopStrict(Tail(ws), segments, Append(current, w), min_gap)

\* the loop of split_by_gutter_gap over words_in_row[1:]
RECURSIVE SplitLoop(_, _, _, _)
SplitLoop(ws, segments, current, min_gap) ==
    IF ws = <<>> THEN Append(segments, current)
    ELSE LET w == Head(ws)
             gap == w.x0 - Last(current).x1
         IN  IF gap >= min_gap
             THEN SplitLoop(Tail(ws), Append(segments, current), <<w>>, min_gap)
             ELSE SplitLoop(Tail(ws), segments, Append(current, w), min_gap)

split_by_gutter_gap(words_in_row, min_gap) ==
    IF words_in_row = <<>> THEN <<>>
    ELSE SplitLoop(Tail(words_in_row), <<>>, <<words_in_row[1]>>, min_gap)

\* "if current_row: rows.append(current_row)" after the grouping loop
FlushRowDropped(rows, current_row) == rows
FlushRow(rows, current_row) ==
    IF current_row # <<>> THEN Append(rows, current_row) ELSE rows

\* row grouping that compares each word with the word added before it
RECURSIVE GroupRowsChained(_, _, _, _, _)
GroupRowsChained(ws, rows, current_row, current_y, tol) ==
    IF ws = <<>> THEN FlushRow(rows, current_row)
    ELSE LET w == Head(ws)
         IN  IF Abs(w.top - current_y) <= tol
             THEN GroupRowsChained(Tail(ws), rows, Append(current_row, w), w.top, tol)
             ELSE GroupRowsChained(Tail(ws), Append(rows, current_row), <<w>>, w.top, tol)

\* the grouping loop of words_to_lines; current_y is the top of the first word
\* of the current row
RECURSIVE GroupRows(_, _, _, _, _)
GroupRows(ws, rows, current_row, current_y, tol) ==
    IF ws = <<>> THEN FlushRow(rows, current_row)
    ELSE LET w == Head(ws)
         IN  IF Abs(w.top - current_y) <= tol
             THEN GroupRows(Tail(ws), rows, Append(current_row, w), current_y, tol)
             ELSE GroupRows(Tail(ws), Append(rows, current_row), <<w>>, w.top, tol)

\* the rows of words_to_lines
RowsOf(ws, tol) ==
    IF ws = <<>> THEN <<>>
    ELSE LET words_sorted == SortedByTopThenX0(ws)
         IN  GroupRows(words_sorted, <<>>, <<>>, words_sorted[1].top, tol)

\* every seg the loops of words_to_lines iterate over, in order
RECURSIVE SegmentsOfRows(_)
SegmentsOfRows(rows) ==
    IF rows = <<>> THEN <<>>
    ELSE split_by_gutter_gap(SortedByX0(Head(rows)), MinGap)
            \o SegmentsOfRows(Tail(rows))

SegmentsOf(ws, tol) == SegmentsOfRows(RowsOf(ws, tol))

BuildLine(seg, k) ==
    [id   |-> k,
     y    |-> MinOf({seg[j].top : j \in 1..Len(seg)}),
     x0   |-> MinOf({seg[j].x0 : j \in 1..Len(seg)}),
     x1   |-> MaxOf({seg[j].x1 : j \in 1..Len(seg)}),
     text |-> norm_space(Join(<<" ">>, [j \in 1..Len(seg) |-> seg[j].text])),
     kind |-> "single"]

words_to_lines(ws, tol) ==
    LET sg == SegmentsOf(ws, tol)
    IN  [k \in 1..Len(sg) |-> BuildLine(sg[k], k)]

\* mid = page_width * num / den
ColumnKindLax(ln, width, num, den) ==
    IF ln.x0 * den <= width * num /\ width * num <= ln.x1 * den THEN "full"
    ELSE IF ln.x1 * den <= width * num THEN "left" ELSE "right"
ColumnKind(ln, width, num, den) ==
    IF ln.x0 * den < width * num /\ width * num < ln.x1 * den THEN "full"
    ELSE IF ln.x1 * den <= width * num THEN "left" ELSE "right"

classify_columns(lns, width, num, den) ==
    [k \in 1..Len(lns) |-> [lns[k] EXCEPT !.kind = ColumnKind(lns[k], width, num, den)]]

OfKind(lns, kind) == SelectSeq(lns, LAMBDA ln : ln.kind = kind)

\* full + left + right, each sorted by y
ReadingOrderUnsorted(lns) ==
    OfKind(lns, "full") \o OfKind(lns, "left") \o OfKind(lns, "right")
ReadingOrder(lns) ==
    SortedByY(OfKind(lns, "full"))
        \o SortedByY(OfKind(lns, "left"))
        \o SortedByY(OfKind(lns, "right"))

\* the filter loop: empty texts, and header/footer lines when asked
KeepLineAlwaysFiltered(ln, drop) ==
    ln.text # <<>> /\ ~is_likely_header_footer(ln.text)
KeepLine(ln, drop) ==
    ln.text # <<>> /\ ~(drop /\ is_likely_header_footer(ln.text))

FilterLines(lns, drop) ==
    LET kept == SelectSeq(lns, LAMBDA ln : KeepLine(ln, drop))
    IN  [k \in 1..Len(kept) |-> kept[k].text]

(***************************************************************************)
(* The paragraph merge loop of reconstruct_page_text.                      *)
(***************************************************************************)
\* out_lines[-1] = prev2 + cur2
HyphenJoinedSpaced(prev2, cur2) == prev2 \o <<" ">> \o cur2
HyphenJoined(prev2, cur2) == prev2 \o cur2

\* out_lines[-1] = prev.rstrip() + " " + cur.lstrip()
SpaceJoined(p, c) == RStrip(p) \o <<" ">> \o LStrip(c)

ReplaceLast(out, s) == [out EXCEPT ![Len(out)] = s]

MergeStep ==
    /\ pc = "merge"
    /\ i < Len(filtered)
    /\ LET c == filtered[i + 1]
       IN  IF out_lines = <<>>
           THEN /\ out_lines' = <<c>>
                /\ cur' = c
                /\ UNCHANGED <<prev, did_merge>>
           ELSE LET p == Last(out_lines)
                    m == merge_hyphenation(p, c)
                IN  /\ cur' = c
                    /\ prev' = p
                    /\ did_merge' = m[3]
                    /\ out_lines' =
                          IF m[3] THEN ReplaceLast(out_lines, HyphenJoined(m[1], m[2]))
                          ELSE IF should_join_with_space(p, c)
                               THEN ReplaceLast(out_lines, SpaceJoined(p, c))
                               ELSE Append(out_lines, c)
    /\ i' = i + 1
    /\ UNCHANGED <<pc, words, page_width, y_tol, drop_headers_footers, segs,
                   lines, ordered, filtered, rec>>
    /\ UNCHANGED runVars

\* page_text = "\n".join(out_lines).strip(); the returned dict
FinishPage ==
    /\ pc = "merge"
    /\ i >= Len(filtered)
    /\ rec' = [width      |-> page_width,
               text       |-> Strip(Join(<<"\n">>, out_lines)),
               line_count |-> Len(out_lines)]
    /\ pc' = "done"
    /\ UNCHANGED <<words, page_width, y_tol, drop_headers_footers, segs, lines,
                   ordered, filtered, i, out_lines, prev, cur, did_merge>>
    /\ UNCHANGED runVars

(***************************************************************************)
(* The stages of reconstruct_page_text before the merge loop.              *)
(***************************************************************************)
WordsToLines ==
    /\ pc = "words"
    /\ segs' = SegmentsOf(words, y_tol)
    /\ lines' = words_to_lines(words, y_tol)
    /\ pc' = "lines"
    /\ UNCHANGED <<words, page_width, y_tol, drop_headers_footers, ordered,
                   filtered, i, out_lines, prev, cur, did_merge, rec>>
    /\ UNCHANGED runVars

ClassifyColumns ==
    /\ pc = "lines"
    /\ lines' = classify_columns(lines, page_width, GutterNum, GutterDen)
    /\ pc' = "classified"
    /\ UNCHANGED <<words, page_width, y_tol, drop_headers_footers, segs, ordered,
                   filtered, i, out_lines, prev, cur, did_merge, rec>>
    /\ UNCHANGED runVars

SequenceLines ==
    /\ pc = "classified"
    /\ ordered' = ReadingOrder(lines)
    /\ pc' = "ordered"
    /\ UNCHANGED <<words, page_width, y_tol, drop_headers_footers, segs, lines,
                   filtered, i, out_lines, prev, cur, did_merge, rec>>
    /\ UNCHANGED runVars

FilterStage ==
    /\ pc = "ordered"
    /\ filtered' = FilterLines(ordered, drop_headers_footers)
    /\ out_lines' = <<>>
    /\ i' = 0
    /\ pc' = "merge"
    /\ UNCHANGED <<words, page_width, y_tol, drop_headers_footers, segs, lines,
                   ordered, prev, cur, did_merge, rec>>
    /\ UNCHANGED runVars

(***************************************************************************)
(* Inputs.                                                                 *)
(***************************************************************************)
WordTexts == {<<>>, <<"7">>}
Tops == {0, 3, 4}
Boxes == {<<0, 20>>, <<45, 50>>, <<45, 60>>, <<75, 90>>}
PageWidths == {100}
YTols == {0 - 1, 3}

WordShapes ==
    {[text |-> t, x0 |-> b[1], x1 |-> b[2], top |-> tp] :
        t \in WordTexts, b \in Boxes, tp \in Tops}

WordLists(m) ==
    {[k \in 1..m |-> [id |-> k, text |-> f[k].text, x0 |-> f[k].x0,
                      x1 |-> f[k].x1, top |-> f[k].top]] :
        f \in [1..m -> WordShapes]}

\* token texts of one segment; the line text is their normalized join
SampleTokenRuns ==
    {<<<<"a">>>>,
     <<<<"a","-">>>>,
     <<<<"a">>, <<"-">>>>,
     <<<<"-">>>>,
     <<<<"-">>, <<"a">>>>,
     <<<<"-","a">>>>,
     <<<<"1",".">>, <<"a">>>>,
     <<<<"1",".","5">>>>,
     <<<<"1","2",".">>, <<"a">>>>,
     <<<<"*">>, <<"A">>>>,
     <<<<"*","a">>>>,
     <<<<"u2022">>, <<"a">>>>,
     <<<<"u2022","a">>>>,
     <<<<"u2013">>, <<"a">>>>,
     <<<<"u2013","a">>>>,
     <<<<"A",".">>>>,
     <<<<"A","B","C","D">>>>,
     <<<<"B","o","x">>, <<"1">>>>,
     <<<<"a">>, <<>>, <<"b">>>>,
     <<<<>>>>}

LineTexts ==
    {norm_space(Join(<<" ">>, r)) : r \in SampleTokenRuns} \ {<<>>}

NoRec == [width |-> 0, text |-> <<>>, line_count |-> 0]

RunIdle ==
    /\ xpc = "idle"
    /\ args = [y_tol_ok |-> TRUE, max_pages |-> <<>>, crop_top |-> 0, crop_bottom |-> 0]
    /\ pdf = <<>>
    /\ pdf_open = FALSE
    /\ n = 0
    /\ idx = 0
    /\ fj = "unopened"
    /\ fj_buf = <<>>
    /\ jsonl_disk = <<>>
    /\ ft = "unopened"
    /\ txt_disk = <<>>
    /\ all_text_pages = <<>>
    /\ reconstructed = <<>>

\* one page: the words extract_words returned
InitPage ==
    /\ pc = "words"
    /\ words \in UNION {WordLists(m) : m \in 0..MaxWords}
    /\ page_width \in PageWidths
    /\ y_tol \in YTols
    /\ drop_headers_footers \in BOOLEAN
    /\ segs = <<>>
    /\ lines = <<>>
    /\ ordered = <<>>
    /\ filtered = <<>>
    /\ i = 0
    /\ out_lines = <<>>
    /\ prev = <<>>
    /\ cur = <<>>
    /\ did_merge = FALSE
    /\ rec = NoRec
    /\ RunIdle

NextPage ==
    \/ WordsToLines
    \/ ClassifyColumns
    \/ SequenceLines
    \/ FilterStage
    \/ MergeStep
    \/ FinishPage

SpecPage == InitPage /\ [][NextPage]_vars

\* the merge loop alone, over any list of non-empty normalized line texts
InitMerge ==
    /\ pc = "merge"
    /\ words = <<>>
    /\ page_width \in PageWidths
    /\ y_tol = 3
    /\ drop_headers_footers = TRUE
    /\ segs = <<>>
    /\ lines = <<>>
    /\ ordered = <<>>
    /\ filtered \in UNION {[1..m -> LineTexts] : m \in 0..MaxLines}
    /\ i = 0
    /\ out_lines = <<>>
    /\ prev = <<>>
    /\ cur = <<>>
    /\ did_merge = FALSE
    /\ rec = NoRec
    /\ RunIdle

NextMerge ==
    \/ MergeStep
    \/ FinishPage

SpecMerge == InitMerge /\ [][NextMerge]_vars

\* words_to_lines alone, over longer word lists: geometry only, one text
RowTops == {0, 3, 4}
RowYTols == {0 - 1, 0, 3}
RowShapes ==
    {[text |-> <<"7">>, x0 |-> b[1], x1 |-> b[2], top |-> tp] :
        b \in Boxes, tp \in RowTops}

RowWordLists(m) ==
    {[k \in 1..m |-> [id |-> k, text |-> f[k].text, x0 |-> f[k].x0,
                      x1 |-> f[k].x1, top |-> f[k].top]] :
        f \in [1..m -> RowShapes]}

InitLines ==
    /\ pc = "words"
    /\ words \in UNION {RowWordLists(m) : m \in 0..MaxRowWords}
    /\ page_width \in PageWidths
    /\ y_tol \in RowYTols
    /\ drop_headers_footers = TRUE
    /\ segs = <<>>
    /\ lines = <<>>
    /\ ordered = <<>>
    /\ filtered = <<>>
    /\ i = 0
    /\ out_lines = <<>>
    /\ prev = <<>>
    /\ cur = <<>>
    /\ did_merge = FALSE
    /\ rec = NoRec
    /\ RunIdle

NextLines == WordsToLines

SpecLines == InitLines /\ [][NextLines]_vars

(***************************************************************************)
(* main and extract_pdf: one run of the program.                           *)
(* args.max_pages is <<>> for None and <<k>> for the integer k.  The       *)
(* document is the sequence of the heights of its pages.  A file object is *)
(* "unopened", "open" or "closed"; open(path, "w") creates or truncates    *)
(* the file; what is written stays in the buffer of the file object until  *)
(* it is flushed, at the latest when the file is closed.                   *)
(***************************************************************************)
Min(a, b) == IF a <= b THEN a ELSE b
Max(a, b) == IF a >= b THEN a ELSE b

\* n = min(total, max_pages) if max_pages else total
PagesToIterateUncapped(total, max_pages) == total
PagesToIterate(total, max_pages) ==
    IF max_pages # <<>> /\ max_pages[1] # 0 THEN Min(total, max_pages[1]) ELSE total

\* bbox = (0, crop_top, width, height - crop_bottom) if (crop_top or
\* crop_bottom) else None; page.crop(bbox) raises ValueError for a box that
\* is empty, inverted or not within the page
CropRaises(height, crop_top, crop_bottom) ==
    /\ (crop_top # 0 \/ crop_bottom # 0)
    /\ \/ crop_top < 0
       \/ crop_bottom < 0
       \/ crop_top >= height - crop_bottom

\* leaving "with open(...) as f": the file is flushed and closed
CloseLosingBuffer(disk, buf) == disk
CloseFlushes(disk, buf) == disk \o buf

\* f"\n\n--- PAGE {rec['page_number']} ---\n\n{rec['text']}"
Section(page_number) ==
    <<[part |-> "marker", page |-> page_number],
      [part |-> "text", page |-> page_number]>>

RECURSIVE Flatten(_)
Flatten(ss) == IF ss = <<>> THEN <<>> ELSE Head(ss) \o Flatten(Tail(ss))

\* ap.parse_args(): a --y-tol that float() rejects ends the run (usage error)
ParseArgs ==
    /\ xpc = "main"
    /\ xpc' = IF args.y_tol_ok THEN "open_pdf" ELSE "usage_error"
    /\ UNCHANGED <<args, pdf, pdf_open, n, idx, fj, fj_buf, jsonl_disk, ft,
                   txt_disk, all_text_pages, reconstructed>>
    /\ UNCHANGED pageVars

\* with pdfplumber.open(pdf_path) as pdf: total, n, all_text_pages
OpenPdf ==
    /\ xpc = "open_pdf"
    /\ pdf_open' = TRUE
    /\ n' = PagesToIterate(Len(pdf), args.max_pages)
    /\ all_text_pages' = <<>>
    /\ xpc' = "open_jsonl"
    /\ UNCHANGED <<args, pdf, idx, fj, fj_buf, jsonl_disk, ft, txt_disk, reconstructed>>
    /\ UNCHANGED pageVars

\* the document is missing or unreadable
OpenPdfRaises ==
    /\ xpc = "open_pdf"
    /\ xpc' = "raised"
    /\ UNCHANGED <<args, pdf, pdf_open, n, idx, fj, fj_buf, jsonl_disk, ft,
                   txt_disk, all_text_pages, reconstructed>>
    /\ UNCHANGED pageVars

\* with open(out_jsonl, "w", encoding="utf-8") as fj
OpenJsonl ==
    /\ xpc = "open_jsonl"
    /\ fj' = "open"
    /\ fj_buf' = <<>>
    /\ jsonl_disk' = <<>>
    /\ idx' = 0
    /\ xpc' = "loop"
    /\ UNCHANGED <<args, pdf, pdf_open, n, ft, txt_disk, all_text_pages, reconstructed>>
    /\ UNCHANGED pageVars

OpenJsonlRaises ==
    /\ xpc = "open_jsonl"
    /\ pdf_open' = FALSE
    /\ xpc' = "raised"
    /\ UNCHANGED <<args, pdf, n, idx, fj, fj_buf, jsonl_disk, ft, txt_disk,
                   all_text_pages, reconstructed>>
    /\ UNCHANGED pageVars

\* one iteration of "for idx in range(n)": the page is reconstructed, its
\* record written to fj, its section appended
PageIteration ==
    /\ xpc = "loop"
    /\ idx < n
    /\ ~CropRaises(pdf[idx + 1], args.crop_top, args.crop_bottom)
    /\ LET page_number == idx + 1
       IN  /\ reconstructed' = Append(reconstructed, page_number)
           /\ \E flushed \in BOOLEAN :
                 IF flushed
                 THEN /\ jsonl_disk' = jsonl_disk \o Append(fj_buf, page_number)
                      /\ fj_buf' = <<>>
                 ELSE /\ fj_buf' = Append(fj_buf, page_number)
                      /\ UNCHANGED jsonl_disk
           /\ all_text_pages' = Append(all_text_pages, Section(page_number))
    /\ idx' = idx + 1
    /\ UNCHANGED <<xpc, args, pdf, pdf_open, n, fj, ft, txt_disk>>
    /\ UNCHANGED pageVars

\* reconstruct_page_text raises (the crop box is refused, or the page cannot
\* be read): the exception leaves both with blocks
PageIterationRaises ==
    /\ xpc = "loop"
    /\ idx < n
    /\ fj' = "closed"
    /\ jsonl_disk' = CloseFlushes(jsonl_disk, fj_buf)
    /\ fj_buf' = <<>>
    /\ pdf_open' = FALSE
    /\ xpc' = "raised"
    /\ UNCHANGED <<args, pdf, n, idx, ft, txt_disk, all_text_pages, reconstructed>>
    /\ UNCHANGED pageVars

\* the loop is over: the with block of fj is left
CloseJsonl ==
    /\ xpc = "loop"
    /\ idx >= n
    /\ fj' = "closed"
    /\ jsonl_disk' = CloseFlushes(jsonl_disk, fj_buf)
    /\ fj_buf' = <<>>
    /\ xpc' = "open_txt"
    /\ UNCHANGED <<args, pdf, pdf_open, n, idx, ft, txt_disk, all_text_pages, reconstructed>>
    /\ UNCHANGED pageVars

\* with open(out_txt, "w", encoding="utf-8") as ft
OpenTxt ==
    /\ xpc = "open_txt"
    /\ ft' = "open"
    /\ txt_disk' = <<>>
    /\ xpc' = "write_txt"
    /\ UNCHANGED <<args, pdf, pdf_open, n, idx, fj, fj_buf, jsonl_disk,
                   all_text_pages, reconstructed>>
    /\ UNCHANGED pageVars

OpenTxtRaises ==
    /\ xpc = "open_txt"
    /\ pdf_open' = FALSE
    /\ xpc' = "raised"
    /\ UNCHANGED <<args, pdf, n, idx, fj, fj_buf, jsonl_disk, ft, txt_disk,
                   all_text_pages, reconstructed>>
    /\ UNCHANGED pageVars

\* ft.write("".join(all_text_pages).strip()); both with blocks are left
WriteTxt ==
    /\ xpc = "write_txt"
    /\ txt_disk' = CloseFlushes(txt_disk, Flatten(all_text_pages))
    /\ ft' = "closed"
    /\ pdf_open' = FALSE
    /\ xpc' = "returned"
    /\ UNCHANGED <<args, pdf, n, idx, fj, fj_buf, jsonl_disk, all_text_pages, reconstructed>>
    /\ UNCHANGED pageVars

PageHeights == {2, 4}
CropValues == {0 - 1, 0, 1, 3}
MaxPagesValues == {<<>>} \cup {<<k>> : k \in (0 - 1)..(MaxPages + 1)}

PageIdle ==
    /\ pc = "idle"
    /\ words = <<>>
    /\ page_width \in PageWidths
    /\ y_tol = 3
    /\ drop_headers_footers = TRUE
    /\ segs = <<>>
    /\ lines = <<>>
    /\ ordered = <<>>
    /\ filtered = <<>>
    /\ i = 0
    /\ out_lines = <<>>
    /\ prev = <<>>
    /\ cur = <<>>
    /\ did_merge = FALSE
    /\ rec = NoRec

InitRun ==
    /\ xpc = "main"
    /\ args \in [y_tol_ok : BOOLEAN, max_pages : MaxPagesValues,
                 crop_top : CropValues, crop_bottom : CropValues]
    /\ pdf \in UNION {[1..m -> PageHeights] : m \in 0..MaxPages}
    /\ pdf_open = FALSE
    /\ n = 0
    /\ idx = 0
    /\ fj = "unopened"
    /\ fj_buf = <<>>
    /\ jsonl_disk = <<>>
    /\ ft = "unopened"
    /\ txt_disk = <<>>
    /\ all_text_pages = <<>>
    /\ reconstructed = <<>>
    /\ PageIdle

NextRun ==
    \/ ParseArgs
    \/ OpenPdf
    \/ OpenPdfRaises
    \/ OpenJsonl
    \/ OpenJsonlRaises
    \/ PageIteration
    \/ PageIterationRaises
    \/ CloseJsonl
    \/ OpenTxt
    \/ OpenTxtRaises
    \/ WriteTxt

SpecRun == InitRun /\ [][NextRun]_vars

(***************************************************************************)
(* Properties of the page reconstruction (SpecPage).                       *)
(***************************************************************************)
Sequenced == pc \in {"ordered", "merge", "done"}
Classified == pc \in {"classified", "ordered", "merge", "done"}
KindRank(kind) == CASE kind = "full" -> 1 [] kind = "left" -> 2 [] OTHER -> 3

\* C1: the reading order holds exactly the classified lines, every full line
\* before every left line and every left line before every right line
\* whatever their y; within one kind y ascends, and lines of one kind with
\* equal y keep the order in which words_to_lines created them.
C1_ReadingOrder ==
    Sequenced =>
        /\ Len(ordered) = Len(lines)
        /\ \A k \in 1..Len(lines) : \E a \in 1..Len(ordered) : ordered[a] = lines[k]
        /\ \A a \in 1..Len(ordered) : \A b \in (a + 1)..Len(ordered) :
              /\ KindRank(ordered[a].kind) <= KindRank(ordered[b].kind)
              /\ ordered[a].kind = ordered[b].kind => ordered[a].y <= ordered[b].y
              /\ (ordered[a].kind = ordered[b].kind /\ ordered[a].y = ordered[b].y)
                    => ordered[a].id < ordered[b].id

\* a full line sequenced before a line of a column that lies above it
C1_Witness ==
    /\ pc = "ordered"
    /\ \E a \in 1..Len(ordered) : \E b \in (a + 1)..Len(ordered) :
          /\ ordered[a].kind = "full"
          /\ ordered[b].kind # "full"
          /\ ordered[a].y > ordered[b].y

WordIds == {words[k].id : k \in 1..Len(words)}
\* how often the word with identity w occurs in the groups (rows or segs)
Occurrences(groups, w) ==
    LET flat == Flatten(groups)
    IN  Cardinality({k \in 1..Len(flat) : flat[k].id = w})

\* C2: every input word is a source word of exactly one Line (one seg per
\* Line), and of exactly one row: none is dropped, none is duplicated.
C2_TokensPreserved ==
    pc # "words" =>
        /\ Len(lines) = Len(segs)
        /\ Range(Flatten(segs)) \subseteq Range(words)
        /\ Len(Flatten(segs)) = Len(words)
        /\ \A w \in WordIds :
              /\ Occurrences(segs, w) = 1
              /\ Occurrences(RowsOf(words, y_tol), w) = 1

\* two words of one row, split by the gutter into two lines
C2_Witness ==
    /\ pc = "lines"
    /\ Len(words) = 2
    /\ y_tol >= 0
    /\ Len(RowsOf(words, y_tol)) = 1
    /\ Len(lines) = 2

TextsOf(lns) == [k \in 1..Len(lns) |-> lns[k].text]

\* C4 as stated: with drop_headers_footers false the merge loop is handed
\* the text of every sequenced line.
C4_NoLineDropped ==
    (pc \in {"merge", "done"} /\ ~drop_headers_footers) =>
        filtered = TextsOf(ordered)

\* C4 amended: with drop_headers_footers false the merge loop is handed, in
\* order, the texts of exactly the sequenced lines whose text is not empty.
C4_OnlyEmptyDropped ==
    (pc \in {"merge", "done"} /\ ~drop_headers_footers) =>
        filtered = SelectSeq(TextsOf(ordered), LAMBDA t : t # <<>>)

\* filtering disabled: a page-number line is kept, an empty line is dropped
C4_Witness ==
    /\ pc = "merge"
    /\ ~drop_headers_footers
    /\ \E k \in 1..Len(ordered) : ordered[k].text = <<"7">>
    /\ \E k \in 1..Len(ordered) : ordered[k].text = <<>>
    /\ filtered = <<(<<"7">>)>>

LineKinds == {"full", "left", "right"}

\* C5: after classify_columns every kind is full, left or right; full iff
\* x0 < mid < x1, else left iff x1 <= mid; the kind depends on nothing but
\* x0, x1, the width and the ratio; classifying again changes nothing; the
\* order and every other field of every line are as words_to_lines left them.
C5_Classification ==
    Classified =>
        LET mid2 == page_width * GutterNum
            Straddles(ln) == ln.x0 * GutterDen < mid2 /\ mid2 < ln.x1 * GutterDen
        IN  /\ \A k \in 1..Len(lines) :
                  /\ lines[k].kind \in LineKinds
                  /\ lines[k].kind = "full" <=> Straddles(lines[k])
                  /\ lines[k].kind = "left" <=>
                        (~Straddles(lines[k]) /\ lines[k].x1 * GutterDen <= mid2)
                  /\ \A j \in 1..Len(lines) :
                        (lines[j].x0 = lines[k].x0 /\ lines[j].x1 = lines[k].x1)
                            => lines[j].kind = lines[k].kind
            /\ [k \in 1..Len(lines) |-> [lines[k] EXCEPT !.kind = "single"]]
                  = words_to_lines(words, y_tol)
            /\ classify_columns(lines, page_width, GutterNum, GutterDen) = lines
            /\ \A k0 \in LineKinds :
                  classify_columns([k \in 1..Len(lines) |-> [lines[k] EXCEPT !.kind = k0]],
                                   page_width, GutterNum, GutterDen) = lines

\* a line that ends exactly at the midpoint (left) beside a full line
C5_Witness ==
    /\ pc = "classified"
    /\ \E a \in 1..Len(lines) : \E b \in 1..Len(lines) :
          /\ lines[a].kind = "full"
          /\ lines[b].kind = "left"
          /\ lines[b].x1 * GutterDen = page_width * GutterNum

(***************************************************************************)
(* Properties of the paragraph merge loop (SpecMerge).                     *)
(***************************************************************************)
InLoop == pc = "merge" /\ i < Len(filtered)
NextLine == filtered[i + 1]

\* C3: when the last output line ends with "-" and the next line starts with
\* a lowercase letter, the step replaces the last output line by itself
\* without the hyphen followed directly by the next line, and appends
\* nothing.
C3_HyphenMerge ==
    [][(/\ InLoop
        /\ out_lines # <<>>
        /\ EndsWith(Last(out_lines), <<"-">>)
        /\ IsLower(NextLine[1]))
       => (/\ Len(out_lines') = Len(out_lines)
           /\ Front(out_lines') = Front(out_lines)
           /\ Last(out_lines') = Front(Last(out_lines)) \o NextLine)]_vars

\* a hyphen merge has just been made
C3_Witness ==
    /\ pc = "merge"
    /\ i >= 2
    /\ did_merge
    /\ EndsWith(prev, <<"-">>)
    /\ IsLower(cur[1])
    /\ Last(out_lines) = Front(prev) \o cur

\* the line starts with one of the markers, whatever follows it
StartsWithMarker(s) == \E k \in 1..Len(s) : MarkerEndsAt(s, k)
\* the line starts with one of the markers followed by whitespace
StartsWithMarkerAndSpace(s) ==
    \E k \in 1..Len(s) : MarkerEndsAt(s, k) /\ k < Len(s) /\ IsSpace(s[k + 1])

\* C9 as stated: after a non-blank output line, a next line that starts with
\* a bullet/list marker, whatever follows the marker, is appended as a new
\* output line.
C9_MarkerStartsNewLine ==
    [][(/\ InLoop
        /\ out_lines # <<>>
        /\ RStrip(Last(out_lines)) # <<>>
        /\ StartsWithMarker(NextLine))
       => out_lines' = Append(out_lines, NextLine)]_vars

\* C9 amended: after a non-blank output line, a next line that starts with a
\* bullet/list marker followed by at least one whitespace character is
\* appended as a new output line and is not joined onto the previous one.
C9_MarkerAndSpaceStartsNewLine ==
    [][(/\ InLoop
        /\ out_lines # <<>>
        /\ RStrip(Last(out_lines)) # <<>>
        /\ StartsWithMarkerAndSpace(NextLine))
       => out_lines' = Append(out_lines, NextLine)]_vars

\* a numbered item has just been appended after a line that would otherwise
\* have been continued
C9_Witness ==
    /\ pc = "merge"
    /\ i >= 2
    /\ Len(out_lines) >= 2
    /\ cur = Last(out_lines)
    /\ IsDigit(cur[1])
    /\ StartsWithMarkerAndSpace(cur)
    /\ prev = out_lines[Len(out_lines) - 1]
    /\ ~(Last(prev) \in SentenceEnd)

Count(s, c) == Cardinality({k \in 1..Len(s) : s[k] = c})

\* C10: every output line of the merge loop is non-empty and whitespace
\* normalized (norm_space leaves it as it is), and a page record with
\* line_count > 0 has exactly line_count newline-separated lines of text.
C10_OutputNormalized ==
    /\ \A k \in 1..Len(out_lines) :
          /\ out_lines[k] # <<>>
          /\ norm_space(out_lines[k]) = out_lines[k]
    /\ (pc = "done" /\ rec.line_count > 0) =>
          Count(rec.text, "\n") + 1 = rec.line_count

\* a finished page of two output lines whose last step merged a hyphenated
\* line that ended in " -"
C10_Witness ==
    /\ pc = "done"
    /\ rec.line_count = 2
    /\ did_merge
    /\ EndsWith(prev, <<" ", "-">>)

(***************************************************************************)
(* Properties of a run (SpecRun).                                          *)
(***************************************************************************)
Terminated == xpc \in {"returned", "raised", "usage_error"}
PagesUpTo(m) == [k \in 1..m |-> k]
SectionsUpTo(m) == Flatten([k \in 1..m |-> Section(k)])

\* min(total_pages, max_pages or total_pages)
ClaimedPageCount ==
    LET total == Len(pdf)
        cap == IF args.max_pages = <<>> \/ args.max_pages[1] = 0
               THEN total ELSE args.max_pages[1]
    IN  Min(total, cap)

\* C6 as stated: a run that returns has processed exactly
\* n = min(total_pages, max_pages or total_pages) pages, the first n in
\* order, each once; the JSON-Lines file holds their n records in order and
\* the text file their n sections, each after its marker.
C6_ExactlyNPages ==
    xpc = "returned" =>
        /\ Len(reconstructed) = ClaimedPageCount
        /\ reconstructed = PagesUpTo(ClaimedPageCount)
        /\ jsonl_disk = PagesUpTo(ClaimedPageCount)
        /\ txt_disk = SectionsUpTo(ClaimedPageCount)

\* C6 amended: a run that returns has processed exactly max(0, n) pages,
\* n = min(total_pages, max_pages or total_pages): the first max(0, n) pages
\* in order, each once; the JSON-Lines file holds their records in order and
\* the text file their sections, each after its marker, in the same order.
C6_FirstPagesInOrder ==
    xpc = "returned" =>
        LET m == Max(0, ClaimedPageCount)
        IN  /\ Len(reconstructed) = m
            /\ reconstructed = PagesUpTo(m)
            /\ jsonl_disk = PagesUpTo(m)
            /\ txt_disk = SectionsUpTo(m)

\* a returned run that max_pages cut short of the document
C6_Witness ==
    /\ xpc = "returned"
    /\ Len(pdf) = 2
    /\ args.max_pages = <<1>>
    /\ reconstructed = <<1>>
    /\ jsonl_disk = <<1>>
    /\ txt_disk = Section(1)

\* C7: when the run is over, however it ended, no output file is open, and
\* the JSON-Lines file, once opened, holds the records of exactly the pages
\* reconstructed before the end (pages 1..k-1 when page k raised).
C7_FilesClosed ==
    Terminated =>
        /\ fj # "open"
        /\ ft # "open"
        /\ ~pdf_open
        /\ reconstructed = PagesUpTo(Len(reconstructed))
        /\ fj = "closed" => (jsonl_disk = reconstructed /\ fj_buf = <<>>)

\* the second page raised after the first was written
C7_Witness ==
    /\ xpc = "raised"
    /\ idx = 1
    /\ idx < n
    /\ reconstructed = <<1>>
    /\ fj = "closed"
    /\ jsonl_disk = <<1>>
    /\ ft = "unopened"

\* a --y-tol that is no number, or a crop that is negative or larger than
\* the height of a page
ConfigurationError ==
    \/ ~args.y_tol_ok
    \/ args.crop_top < 0
    \/ args.crop_bottom < 0
    \/ \E k \in 1..Len(pdf) : args.crop_top > pdf[k] \/ args.crop_bottom > pdf[k]

\* C8: with a configuration error the run fails before any page is
\* processed: no page is reconstructed, no record written, no output file
\* created or truncated, and the run does not return normally.
C8_FailFast ==
    ConfigurationError =>
        /\ reconstructed = <<>>
        /\ fj = "unopened"
        /\ ft = "unopened"
        /\ xpc # "returned"

(***************************************************************************)
(* Gutter splitting and row grouping (SpecLines).                          *)
(***************************************************************************)
\* the rows of the page
GroupedRows == RowsOf(words, y_tol)

\* values of min_gap: the one words_to_lines passes, one below every positive
\* gap of Boxes but the smallest, and the largest gap itself
MinGapValues == {15, MinGap, 55}

\* sg splits row at the gaps of at least g and nowhere else
SplitsAtGaps(sg, row, g) ==
    /\ Flatten(sg) = row
    /\ row # <<>> => Len(sg) >= 1
    /\ \A s \in 1..Len(sg) :
          /\ sg[s] # <<>>
          /\ \A j \in 1..(Len(sg[s]) - 1) : sg[s][j + 1].x0 - sg[s][j].x1 < g
    /\ \A s \in 1..(Len(sg) - 1) : sg[s + 1][1].x0 - Last(sg[s]).x1 >= g

\* C11: for a row sorted ascending by x0, split_by_gutter_gap returns
\* segments whose concatenation is the row in the same order; two
\* consecutive tokens of one segment are less than min_gap apart
\* (next.x0 - prev.x1 < min_gap), the first token of a segment is at least
\* min_gap after the last token of the segment before it, a non-empty row
\* gives at least one segment and no segment is empty.  The segments of the
\* page are the segments of its rows, row after row.
C11_GutterSplit ==
    pc = "lines" =>
        LET rows == GroupedRows
            sorted_rows == [k \in 1..Len(rows) |-> SortedByX0(rows[k])]
        IN  /\ segs = Flatten([k \in 1..Len(rows) |->
                                  split_by_gutter_gap(sorted_rows[k], MinGap)])
            /\ \A k \in 1..Len(rows) :
                  LET row == sorted_rows[k]
                  IN  /\ \A j \in 1..(Len(row) - 1) : row[j].x0 <= row[j + 1].x0
                      /\ \A g \in MinGapValues :
                            SplitsAtGaps(split_by_gutter_gap(row, g), row, g)

\* a row of three tokens split into a segment of two tokens whose gap is
\* below min_gap and a second segment that starts exactly min_gap further on
C11_Witness ==
    /\ pc = "lines"
    /\ Len(words) = 3
    /\ Len(GroupedRows) = 1
    /\ Len(segs) = 2
    /\ Len(segs[1]) = 2
    /\ segs[1][2].x0 - segs[1][1].x1 < MinGap
    /\ segs[2][1].x0 - segs[1][2].x1 = MinGap

\* C12: with y_tol >= 0 the words are scanned in (top, x0) order and every
\* row produced is non-empty; every token of a row is within y_tol of the
\* top of the first token placed in that row (its anchor, not the token
\* added just before), and the first token of every later row is more than
\* y_tol away from the anchor of the row immediately before it.  Every
\* segment of the page lies inside one of these rows.
C12_RowGrouping ==
    (pc = "lines" /\ y_tol >= 0) =>
        LET rows == GroupedRows
            scanned == Flatten(rows)
        IN  /\ scanned = SortedByTopThenX0(words)
            /\ \A j \in 1..(Len(scanned) - 1) :
                  \/ scanned[j].top < scanned[j + 1].top
                  \/ /\ scanned[j].top = scanned[j + 1].top
                     /\ scanned[j].x0 <= scanned[j + 1].x0
            /\ words # <<>> => Len(rows) >= 1
            /\ \A k \in 1..Len(rows) :
                  /\ rows[k] # <<>>
                  /\ \A j \in 1..Len(rows[k]) :
                        Abs(rows[k][j].top - rows[k][1].top) <= y_tol
            /\ \A k \in 2..Len(rows) :
                  Abs(rows[k][1].top - rows[k - 1][1].top) > y_tol
            /\ \A s \in 1..Len(segs) :
                  \E k \in 1..Len(rows) : Range(segs[s]) \subseteq Range(rows[k])

\* a row closed by a token that is within y_tol of the row's last token but
\* more than y_tol from its anchor
C12_Witness ==
    /\ pc = "lines"
    /\ y_tol >= 0
    /\ LET rows == GroupedRows
       IN  \E k \in 1..(Len(rows) - 1) :
              /\ Len(rows[k]) >= 2
              /\ Abs(rows[k + 1][1].top - Last(rows[k]).top) <= y_tol
              /\ Abs(rows[k + 1][1].top - rows[k][1].top) > y_tol

====
